---- MODULE Spec2Model ----
(***************************************************************************)
(* A model of the multi-file code-generation pipeline of                   *)
(* src/tools/codeGenTools.py: generateCode (the generate / validate /      *)
(* repair loop), parse_code_response and its helpers, the structural       *)
(* validator, the Ruff lint validator and saveCode.                        *)
(*                                                                         *)
(* Text is a sequence of one-character strings.  The regular expressions   *)
(* of the source are computed the way Python's re module computes them     *)
(* (leftmost match, greedy or lazy quantifiers).  The file system is a     *)
(* set of directories and a map from path to content; a path is a          *)
(* sequence of segments.  The source uses PEP 701 f-strings, so it runs    *)
(* on Python 3.12 or later.                                                *)
(***************************************************************************)
EXTENDS Integers, Sequences, FiniteSets, TLC

\* ------------------------------------------------------------------ bounds

\* The largest max_attempts a caller passes in the model.
MaxAttemptsBound == 2

\* ------------------------------------------------------------- characters

\* Python's \s, as far as the modelled alphabet goes.
Whitespace == {" ", "\n", "\t"}

LowerLetters ==
    {"a", "b", "c", "d", "e", "f", "g", "h", "i", "j", "k", "l", "m",
     "n", "o", "p", "q", "r", "s", "t", "u", "v", "w", "x", "y", "z"}

Letters == LowerLetters \cup {"A", "M", "P", "Y"}

Digits == {"0", "1", "2", "3", "4", "5", "6", "7", "8", "9"}

\* Python's \w.
WordChars == Letters \cup Digits \cup {"_"}

\* The class [\w\-\./] of a header's filename token.
FilenameChars == WordChars \cup {"-", ".", "/"}

\* The class [\w+-] of a fence's language tag.
LanguageChars == WordChars \cup {"+", "-"}

\* The backquote character U+0060 (the lexer of TLA+ takes no backquote
\* inside a string, so the character is written "BQ").
Backtick == "BQ"

Max2(a, b) == IF a >= b THEN a ELSE b

\* text[i:j] of Python for 1-based i and exclusive 1-based j.
Slice(text, i, j) == IF j <= i THEN <<>> ELSE SubSeq(text, i, j - 1)

\* The first position >= p of text that holds no character of class
\* (Len(text) + 1 when the run reaches the end): a greedy class* from p.
RECURSIVE SkipClass(_, _, _)
SkipClass(text, p, class) ==
    IF p <= Len(text) /\ text[p] \in class
    THEN SkipClass(text, p + 1, class)
    ELSE p

\* str.lstrip, str.rstrip and str.strip.
lstrip(text) == Slice(text, SkipClass(text, 1, Whitespace), Len(text) + 1)

RECURSIVE rstrip(_)
rstrip(text) ==
    IF text /= <<>> /\ text[Len(text)] \in Whitespace
    THEN rstrip(SubSeq(text, 1, Len(text) - 1))
    ELSE text

strip(text) == rstrip(lstrip(text))

\* text.startswith(word, p), 1-based.
StartsWithAt(text, p, word) ==
    /\ p >= 1
    /\ p + Len(word) - 1 <= Len(text)
    /\ SubSeq(text, p, p + Len(word) - 1) = word

\* name.endswith(suffix).
EndsWith(name, suffix) ==
    /\ Len(suffix) <= Len(name)
    /\ SubSeq(name, Len(name) - Len(suffix) + 1, Len(name)) = suffix

FenceMarker == <<Backtick, Backtick, Backtick>>

HeaderMarker == <<"#", "#", "#">>

\* A test that sees a fence marker at the start of the content only.
StartsWithFence(content) == StartsWithAt(content, 1, FenceMarker)

\* The test  FenceMarker in content  of the structural validator.
ContainsFence(content) ==
    \E p \in 1..Len(content) : StartsWithAt(content, p, FenceMarker)

\* part in text: part occurs in text as a contiguous run.
Contains(text, part) ==
    \E p \in 1..(Len(text) + 1) : StartsWithAt(text, p, part)

\* The least position >= p where word starts, or 0.
RECURSIVE FindFrom(_, _, _)
FindFrom(text, p, word) ==
    IF p + Len(word) - 1 > Len(text) THEN 0
    ELSE IF StartsWithAt(text, p, word) THEN p
    ELSE FindFrom(text, p + 1, word)

\* sep.join(parts).
RECURSIVE Join(_, _)
Join(parts, sep) ==
    IF parts = <<>> THEN <<>>
    ELSE IF Len(parts) = 1 THEN parts[1]
    ELSE parts[1] \o sep \o Join(Tail(parts), sep)

\* ^ without re.MULTILINE: the start of the text only.
LineStartOfText(text, p) == p = 1

\* ^ under re.MULTILINE: the start of the text or just after a newline.
LineStart(text, p) == p = 1 \/ (p > 1 /\ p <= Len(text) + 1 /\ text[p - 1] = "\n")

NoMatch == [found |-> FALSE]

\* ------------------------------------------------------------ dictionaries

\* A Python dict is a sequence of [name, content] entries in insertion
\* order with pairwise distinct names.
DictKeys(files) == {files[i].name : i \in 1..Len(files)}

DictHas(files, name) == name \in DictKeys(files)

DictGet(files, name) ==
    files[CHOOSE i \in 1..Len(files) : files[i].name = name].content

\* A dictionary that keeps the first content written under a key.
DictSetKeepFirst(files, name, content) ==
    IF DictHas(files, name) THEN files
    ELSE Append(files, [name |-> name, content |-> content])

\* files[name] = content: an existing key keeps its place.
DictSet(files, name, content) ==
    IF DictHas(files, name)
    THEN [i \in 1..Len(files) |->
             IF files[i].name = name
             THEN [name |-> name, content |-> content]
             ELSE files[i]]
    ELSE Append(files, [name |-> name, content |-> content])

\* ------------------------------------------------------ parse_code_response

\* One match of  ^\s*###\s+([\w\-\./]+)  at p under re.MULTILINE.  The three
\* classes are disjoint from each other and from "#", so the greedy match is
\* the only one.
HeaderMatchAt(text, p) ==
    LET hashes == SkipClass(text, p, Whitespace)
        gap == hashes + 3
        nameStart == SkipClass(text, gap, Whitespace)
        nameEnd == SkipClass(text, nameStart, FilenameChars)
    IN  IF /\ LineStart(text, p)
           /\ StartsWithAt(text, hashes, HeaderMarker)
           /\ nameStart > gap
           /\ nameEnd > nameStart
        THEN [found |-> TRUE, start |-> p, end |-> nameEnd,
              group |-> Slice(text, nameStart, nameEnd)]
        ELSE NoMatch

\* list(pattern.finditer(raw_response)) from position p on.
RECURSIVE HeaderMatches(_, _)
HeaderMatches(text, p) ==
    IF p > Len(text) THEN <<>>
    ELSE LET m == HeaderMatchAt(text, p)
         IN  IF m.found
             THEN <<m>> \o HeaderMatches(text, m.end)
             ELSE HeaderMatches(text, p + 1)

\* One match of  ```(?:[\w+-]+)?\s*(.*?)```  at p under re.DOTALL: the tag
\* and the whitespace hold no backquote, so giving characters back never
\* finds a closing fence the greedy choice misses.
FenceMatchAt(text, p) ==
    LET tagEnd == SkipClass(text, p + 3, LanguageChars)
        bodyStart == SkipClass(text, tagEnd, Whitespace)
        close == FindFrom(text, bodyStart, FenceMarker)
    IN  IF StartsWithAt(text, p, FenceMarker) /\ close > 0
        THEN [found |-> TRUE, start |-> p, end |-> close + 3,
              group |-> Slice(text, bodyStart, close)]
        ELSE NoMatch

\* re.findall of the fenced-block pattern from position p on.
RECURSIVE CodeBlocks(_, _)
CodeBlocks(text, p) ==
    IF p > Len(text) THEN <<>>
    ELSE LET m == FenceMatchAt(text, p)
         IN  IF m.found
             THEN <<m.group>> \o CodeBlocks(text, m.end)
             ELSE CodeBlocks(text, p + 1)

\* [block.strip() for block in code_blocks if block.strip()]
RECURSIVE NonEmptyStripped(_)
NonEmptyStripped(blocks) ==
    IF blocks = <<>> THEN <<>>
    ELSE LET b == strip(Head(blocks))
         IN  (IF b = <<>> THEN <<>> ELSE <<b>>) \o NonEmptyStripped(Tail(blocks))

\* $ under re.MULTILINE: the end of the text or just before a newline.
LineEnd(text, p) == p = Len(text) + 1 \/ (p <= Len(text) /\ text[p] = "\n")

\* The greatest q in lo..hi with LineEnd(text, q), or 0: a greedy \s*
\* followed by $ gives characters back until $ holds.
RECURSIVE LastLineEnd(_, _, _)
LastLineEnd(text, lo, hi) ==
    IF hi < lo THEN 0
    ELSE IF LineEnd(text, hi) THEN hi
    ELSE LastLineEnd(text, lo, hi - 1)

\* One match of  ^\s*```[\w+-]*\s*$  at p under re.MULTILINE.
StrayFenceLineAt(text, p) ==
    LET fence == SkipClass(text, p, Whitespace)
        tagEnd == SkipClass(text, fence + 3, LanguageChars)
        wsEnd == SkipClass(text, tagEnd, Whitespace)
        end == LastLineEnd(text, tagEnd, wsEnd)
    IN  IF /\ LineStart(text, p)
           /\ StartsWithAt(text, fence, FenceMarker)
           /\ end > 0
        THEN [found |-> TRUE, start |-> p, end |-> end]
        ELSE NoMatch

\* re.sub(r"^\s*```[\w+-]*\s*$", "", text, flags=re.MULTILINE) from p on.
RECURSIVE RemoveStrayFenceLines(_, _)
RemoveStrayFenceLines(text, p) ==
    IF p > Len(text) THEN <<>>
    ELSE LET m == StrayFenceLineAt(text, p)
         IN  IF m.found
             THEN RemoveStrayFenceLines(text, m.end)
             ELSE <<text[p]>> \o RemoveStrayFenceLines(text, p + 1)

\* $ without re.MULTILINE: the end of the text or just before a final newline.
TextEnd(text, p) ==
    p = Len(text) + 1 \/ (p = Len(text) /\ text[p] = "\n")

\* The greatest q in lo..hi with TextEnd(text, q), or 0.
RECURSIVE LastTextEnd(_, _, _)
LastTextEnd(text, lo, hi) ==
    IF hi < lo THEN 0
    ELSE IF TextEnd(text, hi) THEN hi
    ELSE LastTextEnd(text, lo, hi - 1)

\* One match of  \s*```\s*$  at p.
TrailingFenceAt(text, p) ==
    LET fence == SkipClass(text, p, Whitespace)
        wsEnd == SkipClass(text, fence + 3, Whitespace)
        end == LastTextEnd(text, fence + 3, wsEnd)
    IN  IF StartsWithAt(text, fence, FenceMarker) /\ end > 0
        THEN [found |-> TRUE, start |-> p, end |-> end]
        ELSE NoMatch

\* re.sub(r"\s*```\s*$", "", text) from p on.
RECURSIVE RemoveTrailingFence(_, _)
RemoveTrailingFence(text, p) ==
    IF p > Len(text) THEN <<>>
    ELSE LET m == TrailingFenceAt(text, p)
         IN  IF m.found
             THEN RemoveTrailingFence(text, m.end)
             ELSE <<text[p]>> \o RemoveTrailingFence(text, p + 1)

BlankLine == <<"\n", "\n">>

_strip_markdown(text) ==
    LET stripped == strip(text)
        code_blocks == CodeBlocks(stripped, 1)
    IN  IF code_blocks /= <<>>
        THEN Join(NonEmptyStripped(code_blocks), BlankLine)
        ELSE strip(RemoveTrailingFence(RemoveStrayFenceLines(stripped, 1), 1))

\* The upper-case letters of the modelled alphabet and str.lower.
UpperCase == [A |-> "a", M |-> "m", P |-> "p", Y |-> "y"]

LowerChar(c) == IF c \in DOMAIN UpperCase THEN UpperCase[c] ELSE c

lower(text) == [i \in 1..Len(text) |-> LowerChar(text[i])]

\* The language -> extension table, as <<language, extension>> pairs.
extension_map ==
    {
      <<<<"p", "y", "t", "h", "o", "n">>, <<"p", "y">>>>,
      <<<<"p", "y">>, <<"p", "y">>>>,
      <<<<"t", "y", "p", "e", "s", "c", "r", "i", "p", "t">>, <<"t", "s">>>>,
      <<<<"t", "s">>, <<"t", "s">>>>,
      <<<<"t", "s", "x">>, <<"t", "s", "x">>>>,
      <<<<"j", "a", "v", "a", "s", "c", "r", "i", "p", "t">>, <<"j", "s">>>>,
      <<<<"j", "s">>, <<"j", "s">>>>,
      <<<<"j", "s", "x">>, <<"j", "s", "x">>>>,
      <<<<"g", "o">>, <<"g", "o">>>>,
      <<<<"g", "o", "l", "a", "n", "g">>, <<"g", "o">>>>,
      <<<<"j", "a", "v", "a">>, <<"j", "a", "v", "a">>>>,
      <<<<"c">>, <<"c">>>>,
      <<<<"c", "p", "p">>, <<"c", "p", "p">>>>,
      <<<<"c", "x", "x">>, <<"c", "p", "p">>>>,
      <<<<"c", "s">>, <<"c", "s">>>>,
      <<<<"c", "s", "h", "a", "r", "p">>, <<"c", "s">>>>,
      <<<<"h", "t", "m", "l">>, <<"h", "t", "m", "l">>>>,
      <<<<"c", "s", "s">>, <<"c", "s", "s">>>>,
      <<<<"s", "q", "l">>, <<"s", "q", "l">>>>,
      <<<<"b", "a", "s", "h">>, <<"s", "h">>>>,
      <<<<"s", "h", "e", "l", "l">>, <<"s", "h">>>>,
      <<<<"s", "h">>, <<"s", "h">>>>,
      <<<<"j", "s", "o", "n">>, <<"j", "s", "o", "n">>>>,
      <<<<"y", "a", "m", "l">>, <<"y", "a", "m", "l">>>>,
      <<<<"y", "m", "l">>, <<"y", "m", "l">>>>,
      <<<<"m", "a", "r", "k", "d", "o", "w", "n">>, <<"m", "d">>>>,
      <<<<"m", "d">>, <<"m", "d">>>>
    }

\* The first position >= p where  ```([\w+-]+)  matches, or 0.
RECURSIVE LanguageSearch(_, _)
LanguageSearch(text, p) ==
    IF p + 3 > Len(text) THEN 0
    ELSE IF StartsWithAt(text, p, FenceMarker) /\ text[p + 3] \in LanguageChars
    THEN p
    ELSE LanguageSearch(text, p + 1)

_detect_default_filename(raw_response) ==
    LET at == LanguageSearch(raw_response, 1)
        language ==
            lower(Slice(raw_response, at + 3,
                        SkipClass(raw_response, at + 3, LanguageChars)))
        known == {row \in extension_map : row[1] = language}
        extension ==
            IF known = {} THEN <<"t", "x", "t">>
            ELSE (CHOOSE row \in known : TRUE)[2]
    IN  IF at = 0
        THEN <<"m", "a", "i", "n", ".", "t", "x", "t">>
        ELSE <<"m", "a", "i", "n", ".">> \o extension

\* The loop of Case B from header i on: a section runs from the end of its
\* header to the start of the next header or to the end of the text.
RECURSIVE ParseSections(_, _, _, _)
ParseSections(raw_response, matches, i, files) ==
    IF i > Len(matches) THEN files
    ELSE LET filename == strip(matches[i].group)
             start_pos == matches[i].end
             end_pos ==
                 IF i + 1 <= Len(matches)
                 THEN matches[i + 1].start
                 ELSE Len(raw_response) + 1
             clean_code == _strip_markdown(Slice(raw_response, start_pos, end_pos))
         IN  ParseSections(raw_response, matches, i + 1,
                 IF clean_code /= <<>>
                 THEN DictSet(files, filename, clean_code)
                 ELSE files)

parse_code_response(raw_response) ==
    LET matches == HeaderMatches(raw_response, 1)
    IN  IF matches = <<>>
        THEN <<[name |-> _detect_default_filename(raw_response),
                content |-> _strip_markdown(raw_response)]>>
        ELSE ParseSections(raw_response, matches, 1, <<>>)

\* --------------------------------------------- _extract_requested_filenames

\* The class [\w\-/] of a requested filename's stem.
StemChars == WordChars \cup {"-", "/"}

\* The alternatives (?:py|js|...|md), in the order the pattern tries them.
RequestExtensions ==
    <<
      <<"p", "y">>,
      <<"j", "s">>,
      <<"t", "s">>,
      <<"t", "s", "x">>,
      <<"j", "s", "x">>,
      <<"h", "t", "m", "l">>,
      <<"c", "s", "s">>,
      <<"g", "o">>,
      <<"j", "a", "v", "a">>,
      <<"j", "s", "o", "n">>,
      <<"y", "a", "m", "l">>,
      <<"y", "m", "l">>,
      <<"m", "d">>
    >>

IsWordAt(text, p) == p >= 1 /\ p <= Len(text) /\ text[p] \in WordChars

\* \b between positions p - 1 and p.
WordBoundary(text, p) == IsWordAt(text, p - 1) /= IsWordAt(text, p)

\* One match of  \b[\w\-/]+\.(?:py|...|md)\b  at p under re.IGNORECASE: the
\* stem is the whole run of stem characters (it holds no "."), and the first
\* alternative that is followed by a word boundary is taken.
RequestedNameAt(text, p) ==
    LET dot == SkipClass(text, p, StemChars)
        fits(k) ==
            /\ dot + Len(RequestExtensions[k]) <= Len(text)
            /\ lower(Slice(text, dot + 1, dot + 1 + Len(RequestExtensions[k])))
                   = RequestExtensions[k]
            /\ WordBoundary(text, dot + 1 + Len(RequestExtensions[k]))
        fitting == {k \in 1..Len(RequestExtensions) : fits(k)}
        first == CHOOSE k \in fitting : \A j \in fitting : k <= j
        end == dot + 1 + Len(RequestExtensions[first])
    IN  IF /\ WordBoundary(text, p)
           /\ dot > p
           /\ dot <= Len(text)
           /\ text[dot] = "."
           /\ fitting /= {}
        THEN [found |-> TRUE, start |-> p, end |-> end,
              group |-> Slice(text, p, end)]
        ELSE NoMatch

\* re.findall of the requested-filename pattern from position p on.
RECURSIVE RequestedNames(_, _)
RequestedNames(text, p) ==
    IF p > Len(text) THEN <<>>
    ELSE LET m == RequestedNameAt(text, p)
         IN  IF m.found
             THEN <<m.group>> \o RequestedNames(text, m.end)
             ELSE RequestedNames(text, p + 1)

_extract_requested_filenames(code_request) ==
    IF code_request = <<>> THEN <<>> ELSE RequestedNames(code_request, 1)

\* ------------------------------------------------ _validate_generated_files

\* str(n) for a natural number n.
DecimalDigits == <<"0", "1", "2", "3", "4", "5", "6", "7", "8", "9">>

RECURSIVE str(_)
str(n) ==
    IF n < 10 THEN <<DecimalDigits[n + 1]>>
    ELSE str(n \div 10) \o <<DecimalDigits[(n % 10) + 1]>>

\* The fixed phrases of the diagnostics; a phrase is one token of a text.
ExpectedAtLeast == "Expected at least "

FilesButGot == " files, but got "

MissingFiles == "Missing files: "

LeftoverFences == "Found leftover markdown fences in files: "

CommaSpace == <<",", " ">>

Newline == <<"\n">>

\* list(files.keys())
KeyList(files) == [i \in 1..Len(files) |-> files[i].name]

\* The validator with the leftover-fence rule alone.
ValidateFencesOnly(files, expected_files, expected_min_files) ==
    LET fenced(name) == ContainsFence(DictGet(files, name))
        dangling_fences == SelectSeq(KeyList(files), fenced)
    IN  [ok |-> dangling_fences = <<>>,
         errors |-> IF dangling_fences = <<>> THEN <<>>
                    ELSE <<LeftoverFences>> \o Join(dangling_fences, CommaSpace)]

\* (ok, message): the count rule with the missing-names rule nested in it,
\* then the leftover-fence rule; message is the lines joined by newlines.
_validate_generated_files(files, expected_files, expected_min_files) ==
    LET short == Len(files) < expected_min_files
        absent(name) == ~DictHas(files, name)
        missing == SelectSeq(expected_files, absent)
        countErrors ==
            IF short
            THEN <<<<ExpectedAtLeast>> \o str(expected_min_files)
                       \o <<FilesButGot>> \o str(Len(files)) \o <<".">>>>
                   \o (IF expected_files /= <<>> /\ missing /= <<>>
                       THEN <<<<MissingFiles>> \o Join(missing, CommaSpace)>>
                       ELSE <<>>)
            ELSE <<>>
        fenced(name) == ContainsFence(DictGet(files, name))
        dangling_fences == SelectSeq(KeyList(files), fenced)
        fenceErrors ==
            IF dangling_fences /= <<>>
            THEN <<<<LeftoverFences>> \o Join(dangling_fences, CommaSpace)>>
            ELSE <<>>
        errors == countErrors \o fenceErrors
    IN  [ok |-> errors = <<>>, errors |-> Join(errors, Newline)]

\* -------------------------------------------------------------- file system

\* A path string is a text; a location is a sequence of segments from the
\* root.  The process runs in HomeDir, temporary directories are made
\* under TempRoot, and settings.workspaceDir is the relative path "w".
HomeDir == <<<<"h">>>>

TempRoot == <<<<"t">>>>

workspaceDir == <<"w">>

WorkspaceLocation == HomeDir \o <<workspaceDir>>

\* path.split("/")
RECURSIVE SplitSlash(_)
SplitSlash(path) ==
    LET cut == FindFrom(path, 1, <<"/">>)
    IN  IF cut = 0 THEN <<path>>
        ELSE <<Slice(path, 1, cut)>>
                 \o SplitSlash(Slice(path, cut + 1, Len(path) + 1))

\* os.path.join(base, name): an absolute name replaces the base.
os_path_join(base, name) ==
    IF name /= <<>> /\ name[1] = "/" THEN name
    ELSE IF base = <<>> \/ base[Len(base)] = "/" THEN base \o name
    ELSE base \o <<"/">> \o name

\* os.path.dirname(path): the part before the last "/", without its
\* trailing slashes unless it is all slashes.
RECURSIVE StripSlashes(_)
StripSlashes(head) ==
    IF head /= <<>> /\ head[Len(head)] = "/"
    THEN StripSlashes(SubSeq(head, 1, Len(head) - 1))
    ELSE head

RECURSIVE LastSlash(_, _)
LastSlash(path, p) ==
    IF p = 0 THEN 0 ELSE IF path[p] = "/" THEN p ELSE LastSlash(path, p - 1)

os_path_dirname(path) ==
    LET head == Slice(path, 1, LastSlash(path, Len(path)) + 1)
    IN  IF StripSlashes(head) = <<>> THEN head ELSE StripSlashes(head)

IsAbsolute(path) == path /= <<>> /\ path[1] = "/"

Parent(location) ==
    IF location = <<>> THEN <<>> ELSE SubSeq(location, 1, Len(location) - 1)

Dot == <<".">>

DotDot == <<".", ".">>

\* The kernel's walk of the directory segments of a path from location at:
\* every named segment must be an existing directory.  With create, a
\* missing directory is made (os.makedirs with exist_ok); a segment that
\* names a file fails either way.
RECURSIVE Walk(_, _, _, _, _)
Walk(dirs, fs, at, segments, create) ==
    IF segments = <<>> THEN [ok |-> TRUE, at |-> at, dirs |-> dirs]
    ELSE LET segment == Head(segments)
             below == Append(at, segment)
         IN  IF segment = <<>> \/ segment = Dot
             THEN Walk(dirs, fs, at, Tail(segments), create)
             ELSE IF segment = DotDot
             THEN Walk(dirs, fs, Parent(at), Tail(segments), create)
             ELSE IF below \in dirs
             THEN Walk(dirs, fs, below, Tail(segments), create)
             ELSE IF create /\ below \notin DOMAIN fs
             THEN Walk(dirs \cup {below}, fs, below, Tail(segments), create)
             ELSE [ok |-> FALSE, at |-> at, dirs |-> dirs]

StartOf(path) == IF IsAbsolute(path) THEN <<>> ELSE HomeDir

\* os.makedirs(path, exist_ok=True): the directories afterwards, and
\* whether the call returned without raising.
os_makedirs(dirs, fs, path) ==
    Walk(dirs, fs, StartOf(path), SplitSlash(path), TRUE)

\* open(path, "w") and write(content): the parent must exist and the leaf
\* must name a file or nothing.
OpenWrite(dirs, fs, path, content) ==
    LET segments == SplitSlash(path)
        leaf == segments[Len(segments)]
        parent == Walk(dirs, fs, StartOf(path),
                       SubSeq(segments, 1, Len(segments) - 1), FALSE)
        target == Append(parent.at, leaf)
    IN  IF /\ parent.ok
           /\ leaf \notin {<<>>, Dot, DotDot}
           /\ target \notin dirs
        THEN [ok |-> TRUE, at |-> target,
              fs |-> [f \in DOMAIN fs \cup {target} |->
                         IF f = target THEN content ELSE fs[f]]]
        ELSE [ok |-> FALSE, at |-> target, fs |-> fs]

\* Whether location lies strictly inside directory.
Inside(location, directory) ==
    /\ Len(location) > Len(directory)
    /\ SubSeq(location, 1, Len(directory)) = directory

\* --------------------------------------------------------------- saveCode

\* saveCode(filename, code): the workspace directory is made, the file is
\* opened under it; an error while opening or writing is caught, printed
\* and answered with None, leaving the file system as it was.
saveCode(dirs, fs, filename, code) ==
    LET made == os_makedirs(dirs, fs, workspaceDir)
        path == os_path_join(workspaceDir, filename)
        written == OpenWrite(made.dirs, fs, path, code)
    IN  [dirs |-> made.dirs, fs |-> written.fs,
         returned |-> IF written.ok THEN path ELSE <<>>,
         saved |-> written.ok]

\* for filename, code in extracted.items(): saveCode(filename, code)
RECURSIVE SaveAll(_, _, _, _)
SaveAll(dirs, fs, files, i) ==
    IF i > Len(files) THEN [dirs |-> dirs, fs |-> fs]
    ELSE LET one == saveCode(dirs, fs, files[i].name, files[i].content)
         IN  SaveAll(one.dirs, one.fs, files, i + 1)

\* ---------------------------------------------------------- _run_ruff_check

DotPy == <<".", "p", "y">>

\* A selection that takes every file for a Python file.
EveryFile(files) == files

\* {name: content for name, content in files.items() if name.endswith(".py")}
PythonFiles(files) ==
    LET lintable(entry) == EndsWith(entry.name, DotPy)
    IN  SelectSeq(files, lintable)

\* The path of the n-th temporary directory of the process.
TempDirPath(n) == <<"/", "t", "/">> \o str(n)

TempDirLocation(n) == Append(TempRoot, str(n))

\* The body of the with block up to the checker's start: every Python file
\* is written under temp_dir, its parent directories made first.  The first
\* call that raises ends the loop.
RECURSIVE PopulateWorkspace(_, _, _, _, _)
PopulateWorkspace(dirs, fs, temp_dir, python_files, i) ==
    IF i > Len(python_files) THEN [ok |-> TRUE, dirs |-> dirs, fs |-> fs]
    ELSE LET safe_path == os_path_join(temp_dir, python_files[i].name)
             made == os_makedirs(dirs, fs, os_path_dirname(safe_path))
             written == OpenWrite(made.dirs, fs, safe_path, python_files[i].content)
         IN  IF made.ok /\ written.ok
             THEN PopulateWorkspace(made.dirs, written.fs, temp_dir,
                                    python_files, i + 1)
             ELSE [ok |-> FALSE, dirs |-> made.dirs, fs |-> fs]

\* A context manager that removes nothing on exit.
KeepDirs(dirs, location) == dirs

\* TemporaryDirectory.__exit__: the directory and all below it are removed.
CleanupDirs(dirs, location) ==
    {d \in dirs : d /= location /\ ~Inside(d, location)}

CleanupFiles(fs, location) ==
    [f \in {g \in DOMAIN fs : ~Inside(g, location)} |-> fs[f]]

NoDetails == "Ruff reported issues but did not return details."

\* The report made from a finished checker process (lines 376-382).
RuffReport(returncode, stdout, stderr) ==
    LET out == strip(stdout)
        errors ==
            IF stderr /= <<>>
            THEN strip(out \o Newline \o strip(stderr))
            ELSE out
    IN  IF returncode = 0
        THEN [ok |-> TRUE, errors |-> <<>>]
        ELSE [ok |-> FALSE,
              errors |-> IF errors /= <<>> THEN errors ELSE <<NoDetails>>]

\* ----------------------------------------------------------- generateCode

coding_prompt == <<"# Role You are an Elite Full-Stack Software Engineer ...">>

FormatFeedback ==
    <<"The generated output did not meet the required file format. Please fix the issues and return corrected code in the exact same format (### filename + fenced code blocks).">>
    \o BlankLine

LintFeedback ==
    <<"The generated code has Ruff lint issues. Please fix the following errors and return corrected code in the exact same format (### filename + fenced code blocks).">>
    \o BlankLine

CleanPrefix ==
    "Successfully generated code and saved to workspace directory. The code is: "

CaveatPrefix ==
    "Successfully generated code and saved to workspace directory but failed to pass validation or Ruff checks. The code is: "

PathsInfix == ". The path of the saved code is: "

RunHint == ". You can now run the code using the runCode tool."

ColonSpace == <<":", " ">>

\* The text returned at lines 180 and 198 after the given prefix.
ResultText(prefix, files) ==
    LET code(i) == files[i].name \o ColonSpace \o files[i].content
        path(i) ==
            files[i].name \o ColonSpace
                \o os_path_join(workspaceDir, files[i].name)
    IN  <<prefix>>
            \o Join([i \in 1..Len(files) |-> code(i)], Newline)
            \o <<PathsInfix>>
            \o Join([i \in 1..Len(files) |-> path(i)], Newline)
            \o <<RunHint>>

Message(role, content) == [role |-> role, content |-> content]

\* The guard with the whitespace test left out: only the empty request and
\* the attempt budget are refused.
InvalidArgumentsNoStrip(request, attempts) ==
    request = <<>> \/ attempts < 1

\* if not code_request or not code_request.strip(): raise ValueError
\* if max_attempts < 1: raise ValueError
InvalidArguments(request, attempts) ==
    request = <<>> \/ strip(request) = <<>> \/ attempts < 1

NoResult == [kind |-> "none", text |-> <<>>]

Raised(exception) == [kind |-> "raised", text |-> <<exception>>]

NoReport == [ok |-> FALSE, errors |-> <<>>]

\* ------------------------------------------------------------------ inputs

NameA == <<"a", ".", "p", "y">>

NameB == <<"b", ".", "p", "y">>

NameNested == <<"p", "/", "c", ".", "p", "y">>

NameEscape == <<".", ".", "/", "e", ".", "p", "y">>

NameDoc == <<"n", ".", "m", "d">>

NameAbsolute == <<"/", "h", "/", "w", "/", "a", ".", "p", "y">>

\* The canonical form of one file in a reply: a header line and a fenced
\* block with a language tag.
Header(name) == HeaderMarker \o <<" ">> \o name \o Newline

Fenced(tag, body) ==
    FenceMarker \o tag \o Newline \o body \o Newline \o FenceMarker

Section(name, tag, body) == Header(name) \o Fenced(tag, body)

TagPy == <<"p", "y">>

TagMd == <<"m", "d">>

TagPython == <<"p", "y", "t", "h", "o", "n">>

\* The requests a caller passes.
CodeRequests ==
    { <<>>,
      <<" ", "\n">>,
      <<"d", "o", " ", "x">>,
      NameA \o <<" ">> \o NameB,
      NameA \o <<" ">> \o NameA }

\* The texts the coding model answers with.
ModelOutputs ==
    { <<>>,
      Section(NameA, TagPy, <<"x">>),
      Section(NameA, TagPy, <<"x">>) \o Newline \o Section(NameB, TagPy, <<"y">>),
      Section(NameNested, TagPy, <<"x">>),
      Section(NameEscape, TagPy, <<"x">>),
      Section(NameDoc, TagMd, <<"t">>),
      Header(NameA) \o <<"x">> \o FenceMarker \o <<"y">>,
      Header(NameDoc) \o <<"x">> \o FenceMarker \o <<"y">>,
      Section(NameAbsolute, TagPy, <<"x">>),
      Header(NameA) }

\* response.content: a text or None.
ModelContents ==
    {[none |-> TRUE, text |-> <<>>]}
        \cup {[none |-> FALSE, text |-> t] : t \in ModelOutputs}

\* What a finished checker process leaves: exit status, stdout, stderr.
CheckerExits ==
    { [returncode |-> 0, stdout |-> <<>>, stderr |-> <<>>],
      [returncode |-> 1, stdout |-> <<"E", "\n">>, stderr |-> <<>>],
      [returncode |-> 1, stdout |-> <<>>, stderr |-> <<"W", " ">>],
      [returncode |-> 1, stdout |-> <<>>, stderr |-> <<>>] }

\* The directories that exist before the call: the root, the home and the
\* temporary root, and possibly the workspace with a package directory.
BaseDirs == {<<>>, HomeDir, TempRoot}

InitialDirs ==
    { BaseDirs,
      BaseDirs \cup {WorkspaceLocation, Append(WorkspaceLocation, <<"p">>)} }

\* ------------------------------------------------------------------- state

VARIABLES
    pc,                 \* where the call of generateCode stands
    code_request,       \* the argument code_request
    max_attempts,       \* the argument max_attempts
    messages,           \* the conversation
    expected_files,     \* the filenames the request names
    expected_min_files, \* max(1, len(expected_files))
    attempt,            \* the loop variable
    ai_code,            \* the model's raw output of this attempt
    extracted,          \* the file set of this attempt
    validation,         \* (validation_ok, validation_errors)
    ruff,               \* (ruff_ok, ruff_errors)
    result,             \* what the call returned or raised
    dirs,               \* the directories that exist
    fs,                 \* the files that exist, location -> content
    ruff_installed,     \* whether a ruff executable is on the PATH
    checker,            \* the checker process: "none", "running", "hung"
    temp_count,         \* temporary directories made so far
    invocations,        \* calls of model.invoke so far
    call,               \* a direct call of one function: its name and arguments
    reply,              \* what the direct call returned
    watchlist,          \* StockMonitor.watchlist
    is_running,         \* StockMonitor.is_running
    monitor_thread,     \* StockMonitor.monitor_thread: 0 for None, or a thread
    threads,            \* where each thread started on _monitor_loop stands
    caller,             \* the thread that calls the monitor: "idle" or "join"
    smtp_i,             \* sendEmail's loop variable i
    smtp_log            \* what became of each SMTP session of sendEmail

monitor_vars == <<watchlist, is_running, monitor_thread, threads, caller>>

vars ==
    <<pc, code_request, max_attempts, messages, expected_files,
      expected_min_files, attempt, ai_code, extracted, validation, ruff,
      result, dirs, fs, ruff_installed, checker, temp_count, invocations,
      call, reply, monitor_vars, smtp_i, smtp_log>>

EmptyFs == [f \in {} |-> <<>>]

\* No function is called directly.
NoCall == [fn |-> "none"]

NoReply == [done |-> FALSE]

Init ==
    /\ pc = "idle"
    /\ code_request = <<>>
    /\ max_attempts = 0
    /\ messages = <<>>
    /\ expected_files = <<>>
    /\ expected_min_files = 0
    /\ attempt = 0
    /\ ai_code = <<>>
    /\ extracted = <<>>
    /\ validation = NoReport
    /\ ruff = NoReport
    /\ result = NoResult
    /\ dirs \in InitialDirs
    /\ fs = EmptyFs
    /\ ruff_installed \in BOOLEAN
    /\ checker = "none"
    /\ temp_count = 0
    /\ invocations = 0
    /\ call = NoCall
    /\ reply = NoReply
    /\ watchlist = <<>>
    /\ is_running = FALSE
    /\ monitor_thread = 0
    /\ threads = <<>>
    /\ caller = "idle"
    /\ smtp_i = 0
    /\ smtp_log = <<>>

\* generateCode(request, attempts) up to the loop (lines 138-148).
Call(request, attempts) ==
    /\ pc = "idle"
    /\ code_request' = request
    /\ max_attempts' = attempts
    /\ IF InvalidArguments(request, attempts)
       THEN /\ result' = Raised("ValueError")
            /\ pc' = "done"
            /\ UNCHANGED <<messages, expected_files, expected_min_files, attempt>>
       ELSE /\ messages' = <<Message("system", coding_prompt),
                             Message("user", request)>>
            /\ expected_files' = _extract_requested_filenames(request)
            /\ expected_min_files' =
                   Max2(1, Len(_extract_requested_filenames(request)))
            /\ attempt' = 1
            /\ pc' = "invoke"
            /\ UNCHANGED result
    /\ UNCHANGED <<ai_code, extracted, validation, ruff, dirs, fs,
                   ruff_installed, checker, temp_count, invocations>>
    /\ UNCHANGED <<call, reply, monitor_vars, smtp_i, smtp_log>>

\* response = model.invoke(messages); ai_code = response.content or ""
\* (lines 152-153).
InvokeReturns(content) ==
    /\ pc = "invoke"
    /\ invocations' = invocations + 1
    /\ ai_code' = IF content.none THEN <<>> ELSE content.text
    /\ pc' = "parse"
    /\ UNCHANGED <<code_request, max_attempts, messages, expected_files,
                   expected_min_files, attempt, extracted, validation, ruff,
                   result, dirs, fs, ruff_installed, checker, temp_count>>
    /\ UNCHANGED <<call, reply, monitor_vars, smtp_i, smtp_log>>

\* model.invoke raises (the model is unreachable): nothing in generateCode
\* catches it.
InvokeRaises ==
    /\ pc = "invoke"
    /\ invocations' = invocations + 1
    /\ result' = Raised("ModelError")
    /\ pc' = "done"
    /\ UNCHANGED <<code_request, max_attempts, messages, expected_files,
                   expected_min_files, attempt, ai_code, extracted,
                   validation, ruff, dirs, fs, ruff_installed, checker,
                   temp_count>>
    /\ UNCHANGED <<call, reply, monitor_vars, smtp_i, smtp_log>>

\* extracted of lines 154-157.
Extract(raw) ==
    LET parsed == parse_code_response(raw)
    IN  IF parsed = <<>>
        THEN <<[name |-> _detect_default_filename(raw), content |-> strip(raw)]>>
        ELSE parsed

\* A loop that goes on to the lint check after every structural check.
ParseAndValidateThenLint ==
    /\ pc = "parse"
    /\ extracted' = Extract(ai_code)
    /\ validation' =
           _validate_generated_files(Extract(ai_code), expected_files,
                                     expected_min_files)
    /\ pc' = "lint"
    /\ UNCHANGED <<code_request, max_attempts, messages, attempt,
                   expected_files, expected_min_files, ai_code, ruff, result,
                   dirs, fs, ruff_installed, checker, temp_count, invocations,
                   call, reply,
                   monitor_vars, smtp_i, smtp_log>>

\* Lines 154-174: parse, validate, and on a structural failure before the
\* last attempt append the feedback and continue.
ParseAndValidate ==
    /\ pc = "parse"
    /\ extracted' = Extract(ai_code)
    /\ validation' =
           _validate_generated_files(Extract(ai_code), expected_files,
                                     expected_min_files)
    /\ IF ~validation'.ok /\ attempt < max_attempts
       THEN /\ messages' =
                   messages \o
                       <<Message("assistant", ai_code),
                         Message("user", FormatFeedback \o validation'.errors)>>
            /\ attempt' = attempt + 1
            /\ pc' = "invoke"
       ELSE /\ pc' = "lint"
            /\ UNCHANGED <<messages, attempt>>
    /\ UNCHANGED <<code_request, max_attempts, expected_files,
                   expected_min_files, ai_code, ruff, result, dirs, fs,
                   ruff_installed, checker, temp_count, invocations>>
    /\ UNCHANGED <<call, reply, monitor_vars, smtp_i, smtp_log>>

\* _run_ruff_check with no Python file (lines 358-360): (True, "").
LintSkipped ==
    /\ pc = "lint"
    /\ PythonFiles(extracted) = <<>>
    /\ ruff' = [ok |-> TRUE, errors |-> <<>>]
    /\ pc' = "decide"
    /\ UNCHANGED <<code_request, max_attempts, messages, expected_files,
                   expected_min_files, attempt, ai_code, extracted,
                   validation, result, dirs, fs, ruff_installed, checker,
                   temp_count, invocations>>
    /\ UNCHANGED <<call, reply, monitor_vars, smtp_i, smtp_log>>

\* The temporary directory of this call, populated (lines 362-367).
Populated ==
    PopulateWorkspace(dirs \cup {TempDirLocation(temp_count + 1)}, fs,
                      TempDirPath(temp_count + 1), PythonFiles(extracted), 1)

\* An error while populating the directory, or subprocess.run finding no
\* ruff executable, raises inside the with block: the directory is removed
\* and the exception leaves _run_ruff_check and generateCode uncaught.
LintRaises ==
    /\ pc = "lint"
    /\ PythonFiles(extracted) /= <<>>
    /\ ~Populated.ok \/ ~ruff_installed
    /\ temp_count' = temp_count + 1
    /\ dirs' = CleanupDirs(Populated.dirs, TempDirLocation(temp_count + 1))
    /\ fs' = CleanupFiles(Populated.fs, TempDirLocation(temp_count + 1))
    /\ result' = Raised(IF Populated.ok THEN "FileNotFoundError" ELSE "OSError")
    /\ pc' = "done"
    /\ UNCHANGED <<code_request, max_attempts, messages, expected_files,
                   expected_min_files, attempt, ai_code, extracted,
                   validation, ruff, ruff_installed, checker, invocations>>
    /\ UNCHANGED <<call, reply, monitor_vars, smtp_i, smtp_log>>

\* subprocess.run(["ruff", "check", temp_dir], ...) starts the checker and
\* waits for it without a timeout (lines 369-374); the process is one that
\* will exit or one that never does.
CheckerStarts(process) ==
    /\ pc = "lint"
    /\ PythonFiles(extracted) /= <<>>
    /\ Populated.ok
    /\ ruff_installed
    /\ temp_count' = temp_count + 1
    /\ dirs' = Populated.dirs
    /\ fs' = Populated.fs
    /\ checker' = process
    /\ pc' = "ruff"
    /\ UNCHANGED <<code_request, max_attempts, messages, expected_files,
                   expected_min_files, attempt, ai_code, extracted,
                   validation, ruff, result, ruff_installed, invocations>>
    /\ UNCHANGED <<call, reply, monitor_vars, smtp_i, smtp_log>>

\* The checker exits: the with block ends, the directory is removed and
\* the report is made (lines 376-382).
CheckerExit(exit) ==
    /\ pc = "ruff"
    /\ checker = "running"
    /\ checker' = "none"
    /\ dirs' = CleanupDirs(dirs, TempDirLocation(temp_count))
    /\ fs' = CleanupFiles(fs, TempDirLocation(temp_count))
    /\ ruff' = RuffReport(exit.returncode, exit.stdout, exit.stderr)
    /\ pc' = "decide"
    /\ UNCHANGED <<code_request, max_attempts, messages, expected_files,
                   expected_min_files, attempt, ai_code, extracted,
                   validation, result, ruff_installed, temp_count,
                   invocations>>
    /\ UNCHANGED <<call, reply, monitor_vars, smtp_i, smtp_log>>

\* Lines 177-180: both reports ok, every file is saved and the clean
\* result returned.
Accept ==
    /\ pc = "decide"
    /\ ruff.ok /\ validation.ok
    /\ dirs' = SaveAll(dirs, fs, extracted, 1).dirs
    /\ fs' = SaveAll(dirs, fs, extracted, 1).fs
    /\ result' = [kind |-> "clean", text |-> ResultText(CleanPrefix, extracted)]
    /\ pc' = "done"
    /\ UNCHANGED <<code_request, max_attempts, messages, expected_files,
                   expected_min_files, attempt, ai_code, extracted,
                   validation, ruff, ruff_installed, checker, temp_count,
                   invocations>>
    /\ UNCHANGED <<call, reply, monitor_vars, smtp_i, smtp_log>>

\* A failed attempt that appends the instruction without the diagnostics.
FeedbackWithoutDiagnostic ==
    /\ pc = "decide"
    /\ ~(ruff.ok /\ validation.ok)
    /\ attempt < max_attempts
    /\ messages' =
           messages \o
               <<Message("assistant", ai_code), Message("user", LintFeedback)>>
    /\ attempt' = attempt + 1
    /\ pc' = "invoke"
    /\ UNCHANGED <<code_request, max_attempts, expected_files,
                   expected_min_files, ai_code, extracted, validation, ruff,
                   result, dirs, fs, ruff_installed, checker, temp_count,
                   invocations, call, reply,
                   monitor_vars, smtp_i, smtp_log>>

\* A failed attempt that appends the feedback without the model's output.
FeedbackWithoutOutput ==
    /\ pc = "decide"
    /\ ~(ruff.ok /\ validation.ok)
    /\ attempt < max_attempts
    /\ messages' = Append(messages, Message("user", LintFeedback \o ruff.errors))
    /\ attempt' = attempt + 1
    /\ pc' = "invoke"
    /\ UNCHANGED <<code_request, max_attempts, expected_files,
                   expected_min_files, ai_code, extracted, validation, ruff,
                   result, dirs, fs, ruff_installed, checker, temp_count,
                   invocations, call, reply,
                   monitor_vars, smtp_i, smtp_log>>

\* Lines 182-190: a failed attempt before the last appends the lint
\* feedback and the loop goes on.
Feedback ==
    /\ pc = "decide"
    /\ ~(ruff.ok /\ validation.ok)
    /\ attempt < max_attempts
    /\ messages' =
           messages \o
               <<Message("assistant", ai_code),
                 Message("user", LintFeedback \o ruff.errors)>>
    /\ attempt' = attempt + 1
    /\ pc' = "invoke"
    /\ UNCHANGED <<code_request, max_attempts, expected_files,
                   expected_min_files, ai_code, extracted, validation, ruff,
                   result, dirs, fs, ruff_installed, checker, temp_count,
                   invocations>>
    /\ UNCHANGED <<call, reply, monitor_vars, smtp_i, smtp_log>>

\* Lines 196-198: the loop ends without a clean attempt, every file of the
\* last attempt is saved and the result with the caveat returned.
AcceptWithWarning ==
    /\ pc = "decide"
    /\ ~(ruff.ok /\ validation.ok)
    /\ attempt >= max_attempts
    /\ dirs' = SaveAll(dirs, fs, extracted, 1).dirs
    /\ fs' = SaveAll(dirs, fs, extracted, 1).fs
    /\ result' = [kind |-> "caveat", text |-> ResultText(CaveatPrefix, extracted)]
    /\ pc' = "done"
    /\ UNCHANGED <<code_request, max_attempts, messages, expected_files,
                   expected_min_files, attempt, ai_code, extracted,
                   validation, ruff, ruff_installed, checker, temp_count,
                   invocations>>
    /\ UNCHANGED <<call, reply, monitor_vars, smtp_i, smtp_log>>

Next ==
    \/ \E request \in CodeRequests, attempts \in 0..MaxAttemptsBound :
           Call(request, attempts)
    \/ \E content \in ModelContents : InvokeReturns(content)
    \/ InvokeRaises
    \/ ParseAndValidate
    \/ LintSkipped
    \/ LintRaises
    \/ \E process \in {"running", "hung"} : CheckerStarts(process)
    \/ \E exit \in CheckerExits : CheckerExit(exit)
    \/ Accept
    \/ Feedback
    \/ AcceptWithWarning

Spec == Init /\ [][Next]_vars

\* ------------------------------------------------------------------ runCode

WorkspacePrefix == <<"w", "o", "r", "k", "s", "p", "a", "c", "e", "/">>

\* sys.executable, as one word of a command line.
sys_executable == "python"

\* LANGUAGE_RUNNERS: the keys with their command prefixes, in order.
LANGUAGE_RUNNERS ==
    <<
      [key |-> <<".", "p", "y">>, runner |-> <<sys_executable>>],
      [key |-> <<".", "j", "s">>, runner |-> <<"node">>],
      [key |-> <<".", "t", "s">>, runner |-> <<"ts-node">>],
      [key |-> <<".", "s", "h">>, runner |-> <<"bash">>],
      [key |-> <<".", "g", "o">>, runner |-> <<"go", "run">>],
      [key |-> <<".", "r", "b">>, runner |-> <<"ruby">>],
      [key |-> <<".", "p", "h", "p">>, runner |-> <<"php">>]
    >>

\* code_path.split(".")[-1]: what follows the last "." (the whole path when
\* it has none).
RECURSIVE LastField(_)
LastField(path) ==
    IF path = <<>> \/ path[Len(path)] = "." THEN <<>>
    ELSE LastField(SubSeq(path, 1, Len(path) - 1)) \o <<path[Len(path)]>>

\* runCode(code_path, script_args) where installed is the set of
\* executables shutil.which finds and process is what subprocess.run meets:
\* an exit with a status, the 20 second timeout, or another exception.
runCode(code_path, script_args, installed, process) ==
    LET key == LastField(code_path)
        hits == {i \in 1..Len(LANGUAGE_RUNNERS) : LANGUAGE_RUNNERS[i].key = key}
        \* LANGUAGE_RUNNERS.get(key): the runner, or the empty list for None.
        runner ==
            IF hits = {} THEN <<>>
            ELSE LANGUAGE_RUNNERS[CHOOSE i \in hits : TRUE].runner
        executable == runner[1]
        cmd == runner \o script_args \o <<code_path>>
    IN  IF Contains(code_path, <<".", ".">>)
               \/ ~StartsWithAt(code_path, 1, WorkspacePrefix)
        THEN [kind |-> "Error: Security Violation."]
        ELSE IF runner = <<>>
        THEN [kind |-> "Error: No runner found"]
        ELSE IF executable /= sys_executable /\ executable \notin installed
        THEN [kind |-> "Error: The runtime is not installed or not in PATH."]
        ELSE IF process.outcome = "timeout"
        THEN [kind |-> "Error: The code execution timed out after 20 seconds."]
        ELSE IF process.outcome = "raises"
        THEN [kind |-> "Error"]
        ELSE IF process.returncode = 0
        THEN [kind |-> "Success!", cmd |-> cmd]
        ELSE [kind |-> "Failed", cmd |-> cmd, returncode |-> process.returncode]

\* ---------------------------------------------------------------- sendEmail

numOfRetries == 3

MailClosing == "\n\nBest regards,\n"

\* The calls of sendEmail: recipient, subject, body and sender name.
SendEmailCalls ==
    { [fn |-> "sendEmail", recipientEmail |-> "r@x", subject |-> "s",
       body |-> body, fromWho |-> fromWho] :
          body \in {<<"h", "i">>, <<"h", "i", " ", "\n">>, <<>>},
          fromWho \in {"XiangCheng Xu", "Bo"} }

\* What one pass through the try block meets: send_message has returned or
\* not, and the exception raised, if any (the last one on leaving the with
\* block, after the message was sent).
SendOutcomes ==
    { [sent |-> TRUE, e |-> <<>>],
      [sent |-> FALSE, e |-> <<"Connection refused">>],
      [sent |-> FALSE, e |-> <<"Authentication failed">>],
      [sent |-> TRUE, e |-> <<"Unexpected reply to QUIT">>] }

\* -------------------------------------------------------------- direct calls

\* The functions of the module called on their own, with arguments drawn
\* from the families below.

\* The longest file content of the one-file replies.
MaxContentLen == 5

\* Every text of that length over a letter, the newline, the hash and the
\* backquote.
Contents ==
    UNION {[1..n -> {"x", "\n", "#", Backtick}] : n \in 0..MaxContentLen}

File(name, content) == [name |-> name, content |-> content]

\* The reply the format template of the prompt asks for: one header line
\* and one fenced block per file.
CanonicalReply(files) ==
    Join([i \in 1..Len(files) |->
              Section(files[i].name, TagPy, files[i].content)], Newline)

\* The file sets that are formatted: one file with any content, two and
\* three files with contents of a few kinds.
FormattedFileSets ==
    LET PairContents ==
            { <<>>, <<"x">>, <<" ", "x", "\n">>, <<"x", "\n", "y">>,
              <<"#", " ", "x">>, <<"x">> \o FenceMarker }
    IN  {<<File(NameA, c)>> : c \in Contents}
            \cup {<<File(NameA, c), File(NameB, d)>> : c, d \in PairContents}
            \cup {<<File(NameNested, c), File(NameDoc, d), File(NameA, c)>> :
                      c, d \in {<<"x">>, <<"y", "\n">>}}

\* The language tags of the replies without a header: none, known ones in
\* either case, and an unknown one.
FenceTags ==
    { <<>>, TagPy, TagPython, <<"P", "Y">>, TagMd,
      <<"z", "z">> }

FenceBodies == {<<>>, <<"x">>, <<" ", "x", "\n", "y", " ">>}

\* Replies with no header line: no fence, one fenced block, two.
HeaderlessReplies ==
    { <<>>, <<"x">>, <<" ", "x", "\n">> }
        \cup {Fenced(t, b) : t \in FenceTags, b \in FenceBodies}
        \cup {<<"t", "\n">> \o Fenced(t, <<"x">>) \o Newline \o Fenced(u, <<"y">>) :
                  t, u \in FenceTags}

\* Replies in which two sections carry the same filename, next to each
\* other or with another file between them.
RepeatedNameReplies ==
    LET SectionBodies ==
            { <<>>, <<" ", "\n">>, <<"x">>, Fenced(TagPy, <<"x">>),
              Fenced(TagPy, <<"y">>), Fenced(TagPy, <<>>),
              Fenced(TagPy, <<"x">>) \o Newline \o Fenced(TagPy, <<"y">>) }
    IN  {Header(NameA) \o b \o Newline \o Header(NameA) \o c :
             b, c \in SectionBodies}
            \cup {Header(NameA) \o b \o Newline \o Header(NameB) \o <<"z">>
                      \o Newline \o Header(NameA) \o c :
                          b, c \in SectionBodies}

ParseCalls ==
    {[fn |-> "parse_code_response", raw_response |-> CanonicalReply(f),
      formatted |-> f] : f \in FormattedFileSets}
        \cup {[fn |-> "parse_code_response", raw_response |-> t] :
                  t \in HeaderlessReplies \cup RepeatedNameReplies}

\* The file sets handed to the structural validator: up to two files.
ValidatorFileSets ==
    LET ValidatorContents == {<<"x">>, <<"x">> \o FenceMarker \o <<"y">>}
        ValidatorNames == {NameA, NameB, NameDoc}
    IN  { <<>> }
            \cup {<<File(n, c)>> : n \in ValidatorNames, c \in ValidatorContents}
            \cup {<<File(q[1], c), File(q[2], d)>> :
                      q \in {r \in ValidatorNames \X ValidatorNames : r[1] /= r[2]},
                      c, d \in ValidatorContents}

\* The call of lines 159-163: expected_files and expected_min_files as
\* lines 147-148 compute them from a request.
ValidateCalls ==
    LET ValidatorRequests ==
            { <<"d", "o", " ", "x">>,
              NameA,
              NameA \o <<" ">> \o NameB,
              NameA \o <<" ">> \o NameA,
              NameA \o <<" ">> \o NameB \o <<" ">> \o NameDoc }
    IN  {[fn |-> "_validate_generated_files", files |-> f,
          expected_files |-> _extract_requested_filenames(r),
          expected_min_files |-> Max2(1, Len(_extract_requested_filenames(r)))] :
             f \in ValidatorFileSets, r \in ValidatorRequests}

\* Paths under workspace/ with every supported extension, an unsupported
\* one and none; a path outside workspace/ and one with "..".
RunPaths ==
    LET RunExtensions ==
            { <<>>, <<".", "t", "x", "t">>, <<".", "p", "y">>, <<".", "j", "s">>,
              <<".", "t", "s">>, <<".", "s", "h">>, <<".", "g", "o">>,
              <<".", "r", "b">>, <<".", "p", "h", "p">> }
    IN  {WorkspacePrefix \o <<"a">> \o e : e \in RunExtensions}
            \cup { <<"a", ".", "p", "y">>,
                   WorkspacePrefix \o <<".", ".", "/", "a", ".", "p", "y">> }

\* runCode with and without arguments, on a machine with no runtime on the
\* PATH and on one with all of them.
RunCodeCalls ==
    {[fn |-> "runCode", code_path |-> p, script_args |-> a, installed |-> i] :
         p \in RunPaths, a \in {<<>>, <<"1">>},
         i \in {{}, {"node", "ts-node", "bash", "go", "ruby", "php"}}}

\* What subprocess.run meets.
Processes ==
    { [outcome |-> "exit", returncode |-> 0],
      [outcome |-> "exit", returncode |-> 1],
      [outcome |-> "timeout", returncode |-> 0],
      [outcome |-> "raises", returncode |-> 0] }

ToolInit ==
    /\ pc = "idle"
    /\ code_request = <<>>
    /\ max_attempts = 0
    /\ messages = <<>>
    /\ expected_files = <<>>
    /\ expected_min_files = 0
    /\ attempt = 0
    /\ ai_code = <<>>
    /\ extracted = <<>>
    /\ validation = NoReport
    /\ ruff = NoReport
    /\ result = NoResult
    /\ dirs = BaseDirs
    /\ fs = EmptyFs
    /\ ruff_installed = FALSE
    /\ checker = "none"
    /\ temp_count = 0
    /\ invocations = 0
    /\ call \in ParseCalls \cup ValidateCalls \cup RunCodeCalls \cup SendEmailCalls
    /\ reply = NoReply
    /\ watchlist = <<>>
    /\ is_running = FALSE
    /\ monitor_thread = 0
    /\ threads = <<>>
    /\ caller = "idle"
    /\ smtp_i = 0
    /\ smtp_log = <<>>

loop_vars ==
    <<pc, code_request, max_attempts, messages, expected_files,
      expected_min_files, attempt, ai_code, extracted, validation, ruff,
      result, dirs, fs, ruff_installed, checker, temp_count, invocations>>

ParseReturns ==
    /\ call.fn = "parse_code_response"
    /\ ~reply.done
    /\ reply' = [done |-> TRUE, value |-> parse_code_response(call.raw_response)]
    /\ UNCHANGED <<call, loop_vars, monitor_vars, smtp_i, smtp_log>>

ValidateReturns ==
    /\ call.fn = "_validate_generated_files"
    /\ ~reply.done
    /\ reply' =
           [done |-> TRUE,
            value |-> _validate_generated_files(call.files, call.expected_files,
                                                call.expected_min_files)]
    /\ UNCHANGED <<call, loop_vars, monitor_vars, smtp_i, smtp_log>>

RunCodeReturns(process) ==
    /\ call.fn = "runCode"
    /\ ~reply.done
    /\ reply' =
           [done |-> TRUE,
            value |-> runCode(call.code_path, call.script_args, call.installed,
                              process)]
    /\ UNCHANGED <<call, loop_vars, monitor_vars, smtp_i, smtp_log>>

\* The message of lines 37-41.
MSG ==
    [Subject |-> call.subject, To |-> call.recipientEmail,
     payload |-> rstrip(call.body) \o <<MailClosing, call.fromWho>>]

\* A retry loop that reports success when its last pass has failed.
SendAttemptSuccessAtLast(outcome) ==
    /\ call.fn = "sendEmail"
    /\ ~reply.done
    /\ smtp_i < numOfRetries
    /\ smtp_log' =
           Append(smtp_log,
                  [delivered |-> IF outcome.sent THEN <<MSG>> ELSE <<>>,
                   e |-> outcome.e])
    /\ IF outcome.e /= <<>> /\ smtp_i < numOfRetries - 1
       THEN smtp_i' = smtp_i + 1 /\ UNCHANGED reply
       ELSE /\ reply' = [done |-> TRUE, value |-> <<"Email sent successfully.">>]
            /\ UNCHANGED smtp_i
    /\ UNCHANGED <<call, loop_vars, monitor_vars>>

\* One pass of the loop of sendEmail (lines 35-52): the message is built
\* and an SMTP session made; without an exception the call returns the
\* confirmation, after an exception it goes on to the next pass or, in the
\* last pass, returns the error text.
SendAttempt(outcome) ==
    /\ call.fn = "sendEmail"
    /\ ~reply.done
    /\ smtp_i < numOfRetries
    /\ smtp_log' =
           Append(smtp_log,
                  [delivered |-> IF outcome.sent THEN <<MSG>> ELSE <<>>,
                   e |-> outcome.e])
    /\ IF outcome.e = <<>>
       THEN /\ reply' = [done |-> TRUE, value |-> <<"Email sent successfully.">>]
            /\ UNCHANGED smtp_i
       ELSE IF smtp_i < numOfRetries - 1
       THEN smtp_i' = smtp_i + 1 /\ UNCHANGED reply
       ELSE /\ reply' =
                   [done |-> TRUE,
                    value |-> <<"Error happens in sending email: ">> \o outcome.e]
            /\ UNCHANGED smtp_i
    /\ UNCHANGED <<call, loop_vars, monitor_vars>>

ToolNext ==
    \/ ParseReturns
    \/ ValidateReturns
    \/ \E process \in Processes : RunCodeReturns(process)
    \/ \E outcome \in SendOutcomes : SendAttempt(outcome)

ToolSpec == ToolInit /\ [][ToolNext]_vars

\* ------------------------------------------------------------ StockMonitor

MaxWatchlist == 3

MaxThreads == 2

\* str.upper over the modelled alphabet.
UpperChar(c) ==
    IF \E u \in DOMAIN UpperCase : UpperCase[u] = c
    THEN CHOOSE u \in DOMAIN UpperCase : UpperCase[u] = c
    ELSE c

upper(text) == [i \in 1..Len(text) |-> UpperChar(text[i])]

\* The state after StockMonitor.__init__ with nothing else called.
MonitorInit ==
    /\ pc = "idle"
    /\ code_request = <<>>
    /\ max_attempts = 0
    /\ messages = <<>>
    /\ expected_files = <<>>
    /\ expected_min_files = 0
    /\ attempt = 0
    /\ ai_code = <<>>
    /\ extracted = <<>>
    /\ validation = NoReport
    /\ ruff = NoReport
    /\ result = NoResult
    /\ dirs = BaseDirs
    /\ fs = EmptyFs
    /\ ruff_installed = FALSE
    /\ checker = "none"
    /\ temp_count = 0
    /\ invocations = 0
    /\ call = NoCall
    /\ reply = NoReply
    /\ watchlist = <<>>
    /\ is_running = FALSE
    /\ monitor_thread = 0
    /\ threads = <<>>
    /\ caller = "idle"
    /\ smtp_i = 0
    /\ smtp_log = <<>>

\* add_stock(symbol): the symbol as given is looked up, its upper case is
\* appended.
add_stock(symbol) ==
    /\ caller = "idle"
    /\ Len(watchlist) < MaxWatchlist
    /\ watchlist' =
           IF \A k \in 1..Len(watchlist) : watchlist[k] /= symbol
           THEN Append(watchlist, upper(symbol))
           ELSE watchlist
    /\ UNCHANGED <<is_running, monitor_thread, threads, caller>>
    /\ UNCHANGED <<loop_vars, call, reply, smtp_i, smtp_log>>

\* remove_stock(symbol): list.remove takes out the first occurrence of the
\* upper-cased symbol.
remove_stock(symbol) ==
    /\ caller = "idle"
    /\ watchlist' =
           IF \E k \in 1..Len(watchlist) : watchlist[k] = upper(symbol)
           THEN LET first ==
                        CHOOSE k \in 1..Len(watchlist) :
                            /\ watchlist[k] = upper(symbol)
                            /\ \A j \in 1..(k - 1) : watchlist[j] /= upper(symbol)
                IN  SubSeq(watchlist, 1, first - 1)
                        \o SubSeq(watchlist, first + 1, Len(watchlist))
           ELSE watchlist
    /\ UNCHANGED <<is_running, monitor_thread, threads, caller>>
    /\ UNCHANGED <<loop_vars, call, reply, smtp_i, smtp_log>>

\* start(): nothing when the flag is set; otherwise the flag is set and a
\* new thread is started on _monitor_loop.
start ==
    /\ caller = "idle"
    /\ IF is_running
       THEN UNCHANGED <<is_running, monitor_thread, threads>>
       ELSE /\ Len(threads) < MaxThreads
            /\ is_running' = TRUE
            /\ threads' = Append(threads, "while")
            /\ monitor_thread' = Len(threads) + 1
    /\ UNCHANGED <<watchlist, caller>>
    /\ UNCHANGED <<loop_vars, call, reply, smtp_i, smtp_log>>

\* stop() up to the join: the flag is cleared, and the caller waits for the
\* thread of monitor_thread when there is one.
stop ==
    /\ caller = "idle"
    /\ is_running' = FALSE
    /\ caller' = IF monitor_thread /= 0 THEN "join" ELSE "idle"
    /\ UNCHANGED <<watchlist, monitor_thread, threads>>
    /\ UNCHANGED <<loop_vars, call, reply, smtp_i, smtp_log>>

\* join(timeout=5) returns: the thread has ended, or the five seconds have
\* passed with the thread still alive; stop() returns either way.
JoinReturns ==
    /\ caller = "join"
    /\ \/ threads[monitor_thread] = "exited"
       \/ threads[monitor_thread] /= "exited"
    /\ caller' = "idle"
    /\ UNCHANGED <<watchlist, is_running, monitor_thread, threads>>
    /\ UNCHANGED <<loop_vars, call, reply, smtp_i, smtp_log>>

\* while self.is_running (line 60).
LoopTest(t) ==
    /\ threads[t] = "while"
    /\ threads' = [threads EXCEPT ![t] = IF is_running THEN "if" ELSE "exited"]
    /\ UNCHANGED <<watchlist, is_running, monitor_thread, caller>>
    /\ UNCHANGED <<loop_vars, call, reply, smtp_i, smtp_log>>

\* if self.watchlist (line 62).
WatchlistTest(t) ==
    /\ threads[t] = "if"
    /\ threads' =
           [threads EXCEPT ![t] = IF watchlist /= <<>> THEN "fetch" ELSE "sleep"]
    /\ UNCHANGED <<watchlist, is_running, monitor_thread, caller>>
    /\ UNCHANGED <<loop_vars, call, reply, smtp_i, smtp_log>>

\* _fetch_stock_data() returns and self.callback(stock_data) is called
\* (lines 63-64).
Fetch(t) ==
    /\ threads[t] = "fetch"
    /\ threads' = [threads EXCEPT ![t] = "callback"]
    /\ UNCHANGED <<watchlist, is_running, monitor_thread, caller>>
    /\ UNCHANGED <<loop_vars, call, reply, smtp_i, smtp_log>>

\* The callback returns, or raises and the exception is printed
\* (lines 64-66).
Callback(t) ==
    /\ threads[t] = "callback"
    /\ threads' = [threads EXCEPT ![t] = "sleep"]
    /\ UNCHANGED <<watchlist, is_running, monitor_thread, caller>>
    /\ UNCHANGED <<loop_vars, call, reply, smtp_i, smtp_log>>

\* time.sleep(self.interval_seconds) ends (line 69).
Sleep(t) ==
    /\ threads[t] = "sleep"
    /\ threads' = [threads EXCEPT ![t] = "while"]
    /\ UNCHANGED <<watchlist, is_running, monitor_thread, caller>>
    /\ UNCHANGED <<loop_vars, call, reply, smtp_i, smtp_log>>

MonitorNext ==
    LET Symbols == {<<"a", "m">>, <<"A", "M">>, <<"p">>}
    IN  \/ \E symbol \in Symbols : add_stock(symbol)
        \/ \E symbol \in Symbols : remove_stock(symbol)
        \/ start
        \/ stop
        \/ JoinReturns
        \/ \E t \in 1..Len(threads) : LoopTest(t)
        \/ \E t \in 1..Len(threads) : WatchlistTest(t)
        \/ \E t \in 1..Len(threads) : Fetch(t)
        \/ \E t \in 1..Len(threads) : Callback(t)
        \/ \E t \in 1..Len(threads) : Sleep(t)

MonitorSpec == MonitorInit /\ [][MonitorNext]_vars

\* ------------------------------------------------------------------ claims

Returned == result.kind \in {"clean", "caveat"}

\* The location a relative name denotes under the workspace directory when
\* every directory on the way exists.
RECURSIVE Lexical(_, _)
Lexical(at, segments) ==
    IF segments = <<>> THEN at
    ELSE IF Head(segments) = <<>> \/ Head(segments) = Dot
    THEN Lexical(at, Tail(segments))
    ELSE IF Head(segments) = DotDot
    THEN Lexical(Parent(at), Tail(segments))
    ELSE Lexical(Append(at, Head(segments)), Tail(segments))

NamedLocation(name) ==
    Lexical(IF IsAbsolute(name) THEN <<>> ELSE WorkspaceLocation,
            SplitSlash(name))

\* The file of this entry exists at the location its name denotes, with
\* the entry's content.
Persisted(entry) ==
    /\ NamedLocation(entry.name) \in DOMAIN fs
    /\ fs[NamedLocation(entry.name)] = entry.content

\* Whether location lies inside one of the temporary directories.
InsideTempDir(location) ==
    Len(location) > Len(TempRoot) + 1 /\ Inside(location, TempRoot)

\* A relative name with no parent-directory segment.
PlainRelative(name) ==
    /\ name /= <<>>
    /\ ~IsAbsolute(name)
    /\ \A i \in 1..Len(SplitSlash(name)) : SplitSlash(name)[i] /= DotDot

\* Every attempt so far failed the structural check: every feedback in the
\* conversation is the format feedback, and the check of this attempt failed.
EveryOutputInvalid ==
    /\ \A i \in 3..Len(messages) :
           messages[i].role = "user" => messages[i].content[1] = FormatFeedback[1]
    /\ ~validation.ok

\* C1: with max_attempts = N >= 1 and a model whose every output fails the
\* structural check, a finished call has made exactly N model invocations
\* and returned the result with the caveat; it has not raised.
C1_BoundedRetry ==
    (/\ pc = "done"
     /\ max_attempts >= 1
     /\ extracted /= <<>>
     /\ result /= Raised("ModelError")
     /\ EveryOutputInvalid)
        => (invocations = max_attempts /\ result.kind = "caveat")

\* The arguments are a configuration error: the request is empty or all
\* whitespace, or fewer than one attempt is asked for.
C2_BadArguments ==
    /\ pc /= "idle"
    /\ \/ \A i \in 1..Len(code_request) : code_request[i] \in Whitespace
       \/ max_attempts < 1

\* C2: a call with an empty or whitespace-only request, or with
\* max_attempts < 1, has ended with ValueError, has made no model
\* invocation, has built no conversation, and no file or temporary
\* directory has been written.
C2_ConfigurationError ==
    C2_BadArguments =>
        /\ pc = "done"
        /\ result = Raised("ValueError")
        /\ invocations = 0
        /\ messages = <<>>
        /\ fs = EmptyFs
        /\ temp_count = 0

\* C2, its case: a whitespace-only request with a valid attempt budget, and
\* a valid request with no attempt, have been refused.
C2_Witness ==
    /\ pc = "done"
    /\ result = Raised("ValueError")
    /\ \/ (code_request /= <<>> /\ max_attempts >= 1)
       \/ (strip(code_request) /= <<>> /\ max_attempts = 0)

\* C3: when the first attempt passes the structural check and the lint
\* check, the call returns the clean result after one model invocation,
\* with no feedback in the conversation and every file of the attempt
\* persisted under its name.
C3_FirstAttemptClean ==
    (pc = "done" /\ attempt = 1 /\ validation.ok /\ ruff.ok)
        => /\ result.kind = "clean"
           /\ invocations = 1
           /\ Len(messages) = 2
           /\ \A i \in 1..Len(extracted) : Persisted(extracted[i])

\* C4: the clean result is returned only when both checks of the final
\* attempt were ok, and every other finished call that parsed at least one
\* file set returned the result with the caveat.
C4_CleanOnlyWhenBothOk ==
    /\ result.kind = "clean" => (validation.ok /\ ruff.ok)
    /\ (pc = "done" /\ extracted /= <<>> /\ result.kind /= "clean")
           => result.kind = "caveat"

\* C5: the result with the caveat holds the diagnostic text of a check
\* that failed in the final attempt.
C5_CaveatCarriesDiagnostic ==
    result.kind = "caveat" =>
        \/ (~validation.ok /\ Contains(result.text, validation.errors))
        \/ (~ruff.ok /\ Contains(result.text, ruff.errors))

\* C6: when the call has returned, every file of the final file set with a
\* plain relative name, directory segments included, exists under the
\* workspace directory with its content.
C6_EveryFilePersisted ==
    Returned =>
        \A i \in 1..Len(extracted) :
            PlainRelative(extracted[i].name) => Persisted(extracted[i])

\* C7: every filename of the parsed file set is a non-empty relative path
\* with no parent-directory segment, and every file written lies inside
\* the workspace directory or inside a temporary directory.
C7_FilenamesStayInside ==
    /\ \A i \in 1..Len(extracted) : PlainRelative(extracted[i].name)
    /\ \A f \in DOMAIN fs :
           Inside(f, WorkspaceLocation) \/ InsideTempDir(f)

\* C8: a failure of the model invocation reaches the caller only while no
\* attempt has produced a file set; afterwards it counts as a failed attempt.
C8_ModelFailureAfterFirstAttempt ==
    result = Raised("ModelError") => extracted = <<>>

\* C9: the lint validator does not raise: no error of the temporary
\* workspace or of starting the checker leaves generateCode.
C9_LintNeverRaises ==
    result \notin {Raised("FileNotFoundError"), Raised("OSError")}

\* C10: a checker process that never exits does not stall the loop: while
\* the call waits for a hung checker it still has a step to take (the
\* timeout that turns the hang into a failed lint).
C10_HungCheckerTimesOut ==
    (pc = "ruff" /\ checker = "hung") => ENABLED Next

\* The file set with every content trimmed of whitespace.
Trimmed(files) ==
    [i \in 1..Len(files) |-> File(files[i].name, strip(files[i].content))]

\* parse_code_response has returned from a reply made with the format
\* template.
RoundTripDone ==
    /\ call.fn = "parse_code_response"
    /\ "formatted" \in DOMAIN call
    /\ reply.done

\* A content the template carries unharmed: not empty after trimming, no
\* fence marker in it and no line that reads as a header.
PlainContent(content) ==
    /\ strip(content) /= <<>>
    /\ ~ContainsFence(content)
    /\ HeaderMatches(content, 1) = <<>>

\* C11, as stated: for every file set with distinct filenames and any
\* contents, parsing the reply made with the format template returns
\* exactly the files, each content trimmed.
C11_ParseRoundTrip ==
    RoundTripDone => reply.value = Trimmed(call.formatted)

\* C11, amended: the round trip holds for the file sets whose every content
\* is non-empty after trimming, holds no fence marker and no header line.
C11_PlainRoundTrip ==
    (RoundTripDone
         /\ \A i \in 1..Len(call.formatted) :
                PlainContent(call.formatted[i].content))
        => reply.value = Trimmed(call.formatted)

\* C11, its case: three files, one of them with whitespace to trim, have
\* come back from the round trip.
C11_Witness ==
    /\ RoundTripDone
    /\ Len(call.formatted) = 3
    /\ \A i \in 1..3 : PlainContent(call.formatted[i].content)
    /\ \E i \in 1..3 : strip(call.formatted[i].content) /= call.formatted[i].content
    /\ reply.value = Trimmed(call.formatted)

\* parse_code_response has returned from a reply with no header line.
HeaderlessDone ==
    /\ call.fn = "parse_code_response"
    /\ reply.done
    /\ HeaderMatches(call.raw_response, 1) = <<>>

\* main.<ext> for the language tag of the first fence of the text, and
\* main.txt when the text has no fence, the first fence no tag, or a tag the
\* table does not know.
FirstFenceName(text) ==
    LET at == FindFrom(text, 1, FenceMarker)
        tag == lower(Slice(text, at + 3, SkipClass(text, at + 3, LanguageChars)))
        known == {row \in extension_map : row[1] = tag}
    IN  <<"m", "a", "i", "n", ".">>
            \o (IF at = 0 \/ known = {} THEN <<"t", "x", "t">>
                ELSE (CHOOSE row \in known : TRUE)[2])

\* C12: a reply with no header line parses to exactly one file, named
\* main.<ext> after the language tag of its first fence (main.txt when the
\* first fence has no tag or an unknown one, or there is no fence); a single
\* fenced block tagged python gives main.py with the trimmed body.
C12_FallbackName ==
    HeaderlessDone =>
        /\ Len(reply.value) = 1
        /\ reply.value[1].name = FirstFenceName(call.raw_response)
        /\ \A b \in FenceBodies :
               call.raw_response = Fenced(TagPython, b)
                   => reply.value = <<File(<<"m", "a", "i", "n", ".", "p", "y">>, strip(b))>>

\* The cleaned body of the k-th header section of a reply.
CleanedSection(raw, k) ==
    LET matches == HeaderMatches(raw, 1)
    IN  _strip_markdown(
            Slice(raw, matches[k].end,
                  IF k + 1 <= Len(matches) THEN matches[k + 1].start
                  ELSE Len(raw) + 1))

\* The header sections of a reply that carry this filename.
SectionsNamed(raw, name) ==
    {k \in 1..Len(HeaderMatches(raw, 1)) :
         strip(HeaderMatches(raw, 1)[k].group) = name}

\* The filenames that two or more header sections of a reply carry.
RepeatedNames(raw) ==
    {n \in {strip(HeaderMatches(raw, 1)[k].group) :
                k \in 1..Len(HeaderMatches(raw, 1))} :
         Cardinality(SectionsNamed(raw, n)) >= 2}

Last(indices) == CHOOSE k \in indices : \A j \in indices : j <= k

\* The entries of a file set under this filename.
EntriesNamed(files, name) == {i \in 1..Len(files) : files[i].name = name}

ParseDone == call.fn = "parse_code_response" /\ reply.done

\* C13, as stated: when two header sections of a reply carry the same
\* filename, the parsed file set has one entry under that filename and its
\* content is the cleaned body of the later section, whatever that body is.
C13_LastWriteWins ==
    ParseDone =>
        \A n \in RepeatedNames(call.raw_response) :
            /\ Cardinality(EntriesNamed(reply.value, n)) = 1
            /\ DictGet(reply.value, n)
                   = CleanedSection(call.raw_response,
                                    Last(SectionsNamed(call.raw_response, n)))

\* C13, amended: the entry holds the cleaned body of the last section of
\* that filename whose cleaned body is not empty; a section that is empty
\* after cleaning is discarded and overwrites nothing, and when every
\* section of the filename is empty there is no entry.
C13_LastNonEmptyWins ==
    ParseDone =>
        \A n \in RepeatedNames(call.raw_response) :
            LET kept == {k \in SectionsNamed(call.raw_response, n) :
                             CleanedSection(call.raw_response, k) /= <<>>}
            IN  IF kept = {}
                THEN EntriesNamed(reply.value, n) = {}
                ELSE /\ Cardinality(EntriesNamed(reply.value, n)) = 1
                     /\ DictGet(reply.value, n)
                            = CleanedSection(call.raw_response, Last(kept))

\* C13, its case: two sections named a.py with different bodies, neither
\* empty after cleaning, and the entry holds the later one.
C13_Witness ==
    /\ ParseDone
    /\ SectionsNamed(call.raw_response, NameA) = {1, 2}
    /\ CleanedSection(call.raw_response, 1) /= <<>>
    /\ CleanedSection(call.raw_response, 2) /= <<>>
    /\ CleanedSection(call.raw_response, 1) /= CleanedSection(call.raw_response, 2)
    /\ reply.value = <<File(NameA, CleanedSection(call.raw_response, 2))>>

ValidateDone == call.fn = "_validate_generated_files" /\ reply.done

\* C14: a file set of M files checked against a minimum of N > M files
\* is reported not ok, with a message that names N and M.
C14_CountRule ==
    (ValidateDone /\ Len(call.files) < call.expected_min_files)
        => /\ ~reply.value.ok
           /\ Contains(reply.value.errors,
                       <<ExpectedAtLeast>> \o str(call.expected_min_files)
                           \o <<FilesButGot>> \o str(Len(call.files)) \o <<".">>)

\* C14, its case: the empty file set against a minimum of one file is not
\* ok and the message names 1 and 0.
C14_Witness ==
    /\ ValidateDone
    /\ call.files = <<>>
    /\ call.expected_min_files = 1
    /\ ~reply.value.ok
    /\ Contains(reply.value.errors, <<"1">>)
    /\ Contains(reply.value.errors, <<"0">>)

\* The expected filenames that the file set of the call lacks, in order.
MissingExpected ==
    LET absent(name) == ~DictHas(call.files, name)
    IN  SelectSeq(call.expected_files, absent)

\* C15: whenever an expected filename is absent from the file set the
\* report is not ok and lists the missing filenames, whatever the number
\* of files.
C15_MissingReported ==
    (ValidateDone /\ MissingExpected /= <<>>)
        => /\ ~reply.value.ok
           /\ Contains(reply.value.errors,
                       <<MissingFiles>> \o Join(MissingExpected, CommaSpace))

\* No filename of the file set ends in the lintable extension.
NothingToLint(files) ==
    \A i \in 1..Len(files) : ~EndsWith(files[i].name, DotPy)

\* C16: the lint validator called on a file set with no filename ending in
\* .py reports (ok, no diagnostics) and makes no temporary directory,
\* writes no file and starts no checker.
C16_LintNoOp ==
    [][(pc = "lint" /\ NothingToLint(extracted))
           => /\ ruff' = [ok |-> TRUE, errors |-> <<>>]
              /\ pc' = "decide"
              /\ temp_count' = temp_count
              /\ dirs' = dirs
              /\ fs' = fs
              /\ checker' = "none"]_vars

\* C16, its case: the lint validator has returned for a file set with a
\* Markdown file only.
C16_Witness ==
    /\ pc = "decide"
    /\ extracted = <<File(NameDoc, <<"t">>)>>
    /\ ruff = [ok |-> TRUE, errors |-> <<>>]
    /\ temp_count = 0

\* The runners whose key the path ends in and whose runtime is there: the
\* running interpreter, or an executable found on the PATH.
AvailableRunners ==
    {i \in 1..Len(LANGUAGE_RUNNERS) :
         /\ EndsWith(call.code_path, LANGUAGE_RUNNERS[i].key)
         /\ \/ LANGUAGE_RUNNERS[i].runner[1] = sys_executable
            \/ LANGUAGE_RUNNERS[i].runner[1] \in call.installed}

\* runCode has returned for a path under workspace/ with no ".." and a
\* supported extension whose runtime is installed.
RunnableDone ==
    /\ call.fn = "runCode"
    /\ reply.done
    /\ StartsWithAt(call.code_path, 1, WorkspacePrefix)
    /\ ~Contains(call.code_path, DotDot)
    /\ AvailableRunners /= {}

\* C17: runCode on such a path runs the script with the runner of its
\* extension and returns what the run gave; it does not refuse the path, and
\* a script that exits is reported as a success or as a failure.
C17_SupportedScriptRuns ==
    RunnableDone =>
        /\ reply.value.kind
               \in {"Success!", "Failed", "Error",
                    "Error: The code execution timed out after 20 seconds."}
        /\ reply.value.kind \in {"Success!", "Failed"}
               => reply.value.cmd =
                      LANGUAGE_RUNNERS[CHOOSE i \in AvailableRunners : TRUE].runner
                          \o call.script_args \o <<call.code_path>>

\* The conversation as the k-th model invocation is about to see it: the
\* system prompt, the request, and one assistant/user pair per earlier
\* attempt.
ConversationAt(k) ==
    /\ Len(messages) = 2 * k
    /\ messages[1] = Message("system", coding_prompt)
    /\ messages[2] = Message("user", code_request)
    /\ \A i \in 2..k :
           /\ messages[2 * i - 1].role = "assistant"
           /\ messages[2 * i].role = "user"

\* One step of the conversation: it is created, left alone, or extended by
\* the raw output of the attempt that failed and one feedback message made
\* from that attempt's diagnostics.
ConversationStep ==
    \/ messages' = messages
    \/ messages = <<>> /\ Len(messages') = 2
    \/ /\ attempt' = attempt + 1
       /\ \E feedback \in {FormatFeedback \o validation'.errors,
                           LintFeedback \o ruff.errors} :
              messages' = messages \o <<Message("assistant", ai_code),
                                        Message("user", feedback)>>

WorkspaceFiles == {f \in DOMAIN fs : Inside(f, WorkspaceLocation)}

\* Every file under the workspace directory is an entry of the final file
\* set: nothing of an earlier attempt is there.
OnlyLastFileSet ==
    \A f \in WorkspaceFiles :
        \E i \in 1..Len(extracted) :
            NamedLocation(extracted[i].name) = f /\ extracted[i].content = fs[f]

\* C19: when the call has returned, the final file set is the one parsed
\* from the last model output, the files under the workspace directory are
\* entries of it, and every entry of it is there.
C19_PersistedIsLastParsed ==
    Returned =>
        /\ extracted = Extract(ai_code)
        /\ OnlyLastFileSet
        /\ \A i \in 1..Len(extracted) : Persisted(extracted[i])

\* The n-th temporary directory, or something below it, exists.
TempWorkspaceExists(n) ==
    \/ TempDirLocation(n) \in dirs
    \/ \E d \in dirs : Inside(d, TempDirLocation(n))
    \/ \E f \in DOMAIN fs : Inside(f, TempDirLocation(n))

\* C20: a lint invocation works in a temporary directory that did not
\* exist before it; while the checker runs this is the only one there is,
\* and once the lint validator has returned or raised none is left.
C20_TempWorkspaceScoped ==
    /\ ~TempWorkspaceExists(temp_count + 1)
    /\ \A n \in 1..(temp_count - 1) : ~TempWorkspaceExists(n)
    /\ pc = "ruff" => TempDirLocation(temp_count) \in dirs
    /\ pc /= "ruff" => \A n \in 1..temp_count : ~TempWorkspaceExists(n)

\* C20, its case: the second lint invocation of a call has returned a
\* failed report, after a first one in another temporary directory.
C20_Witness ==
    /\ pc = "decide"
    /\ temp_count = 2
    /\ ~ruff.ok
    /\ ~TempWorkspaceExists(1)
    /\ ~TempWorkspaceExists(2)

\* The filenames of the call's file set whose content holds a triple
\* backquote, in order.
FencedNames ==
    LET fenced(entry) == Contains(entry.content, FenceMarker)
        entries == SelectSeq(call.files, fenced)
    IN  [i \in 1..Len(entries) |-> entries[i].name]

\* C21: the structural validator's report is ok exactly when its message is
\* empty, and when some content holds a triple backquote the report is not
\* ok and its leftover-fences line names every such file.
C21_OkIffNoDiagnostic ==
    ValidateDone =>
        /\ reply.value.ok <=> reply.value.errors = <<>>
        /\ FencedNames /= <<>> =>
               /\ ~reply.value.ok
               /\ Contains(reply.value.errors,
                           <<LeftoverFences>> \o Join(FencedNames, CommaSpace))

\* C21, its case: a file set of the required size in which one of two files
\* holds a triple backquote has been reported not ok.
C21_Witness ==
    /\ ValidateDone
    /\ Len(call.files) = 2
    /\ call.expected_min_files = 1
    /\ Len(FencedNames) = 1
    /\ ~reply.value.ok
    /\ reply.value.errors = <<LeftoverFences>> \o FencedNames[1]

\* C22: the minimum file count of the loop is the number of distinct
\* filenames the request mentions, or 1 when it mentions none; a single file
\* of the name a request mentions twice passes the structural check.
C22_DistinctExpectedFiles ==
    messages /= <<>> =>
        /\ expected_min_files =
               Max2(1, Cardinality({expected_files[i] : i \in 1..Len(expected_files)}))
        /\ (/\ pc \in {"lint", "ruff", "decide", "done"}
            /\ code_request = NameA \o <<" ">> \o NameA
            /\ extracted = <<File(NameA, <<"x">>)>>)
               => validation.ok

\* C23: the feedback appended after a failed attempt is the fixed
\* instruction followed by that attempt's diagnostics, which are not empty:
\* the structural errors when the structural check failed, otherwise the
\* lint errors of a lint check that failed.
C23_FeedbackCarriesDiagnostic ==
    [][(messages /= <<>> /\ Len(messages') = Len(messages) + 2)
           => /\ messages'[Len(messages')].role = "user"
              /\ IF ~validation'.ok
                 THEN /\ validation'.errors /= <<>>
                      /\ messages'[Len(messages')].content
                             = FormatFeedback \o validation'.errors
                 ELSE /\ ~ruff'.ok
                      /\ ruff'.errors /= <<>>
                      /\ messages'[Len(messages')].content
                             = LintFeedback \o ruff'.errors]_vars

\* C23, its case: the second invocation is about to be made after an
\* attempt that passed the structural check and failed the lint check.
C23_Witness ==
    /\ pc = "invoke"
    /\ Len(messages) = 4
    /\ validation.ok
    /\ ~ruff.ok
    /\ messages[4] = Message("user", LintFeedback \o <<"E">>)

\* The files of the output area with their contents.
OutputArea == [f \in WorkspaceFiles |-> fs[f]]

\* C24: the files under the workspace directory change only in the step
\* that ends the call with the clean result or the result with the caveat.
C24_OutputWrittenAtAcceptOnly ==
    [][OutputArea' /= OutputArea => (pc = "decide" /\ pc' = "done")]_vars

\* C25: the file set that the structural check of an attempt receives holds
\* at least one file, and the line of the minimum-count rule is in its
\* report only when the request names more distinct files than the file set
\* holds.
C25_ValidatedFileSetNonEmpty ==
    [][pc = "parse"
           => /\ extracted' /= <<>>
              /\ Contains(validation'.errors, <<ExpectedAtLeast>>)
                     => Cardinality({expected_files[i] :
                                         i \in 1..Len(expected_files)})
                            > Len(extracted')]_vars

\* C26: _run_ruff_check is entered only from the structural check of the
\* same attempt, and no second time before the attempt counter moves on; a
\* structural failure before the last attempt goes straight to the next
\* invocation with no temporary directory made, and in the last attempt the
\* lint validator is entered and runs whatever the structural report says.
C26_LintOncePerAttempt ==
    [][/\ (pc' = "lint" /\ pc /= "lint")
              => /\ pc = "parse"
                 /\ attempt' = attempt
                 /\ validation'.ok \/ attempt = max_attempts
       /\ (pc = "lint" /\ pc' /= "lint")
              => pc' \in {"ruff", "decide", "done"} /\ attempt' = attempt
       /\ (pc \in {"ruff", "decide"} /\ pc' \notin {"ruff", "decide", "done"})
              => pc' = "invoke" /\ attempt' = attempt + 1
       /\ (pc = "parse" /\ ~validation'.ok /\ attempt < max_attempts)
              => /\ pc' = "invoke"
                 /\ attempt' = attempt + 1
                 /\ temp_count' = temp_count
       /\ (pc = "parse" /\ ~validation'.ok /\ attempt = max_attempts)
              => pc' = "lint"]_vars

\* C26, its case: the second and last attempt failed the structural check
\* and the checker has been run on it all the same, in the only temporary
\* directory of the call, the first attempt having failed the structural
\* check too.
C26_Witness ==
    /\ pc = "decide"
    /\ attempt = 2
    /\ max_attempts = 2
    /\ ~validation.ok
    /\ temp_count = 1
    /\ Len(messages) = 4
    /\ StartsWithAt(messages[4].content, 1, FormatFeedback)

\* C27: the watchlist holds no symbol twice, every symbol in it is in upper
\* case, and a call of remove_stock leaves a watchlist without the upper
\* case of its symbol.
C27_WatchlistDistinct ==
    /\ [](\A j, k \in 1..Len(watchlist) :
              /\ watchlist[j] = upper(watchlist[j])
              /\ j /= k => watchlist[j] /= watchlist[k])
    /\ [][\A symbol \in {<<"a", "m">>, <<"A", "M">>, <<"p">>} :
              remove_stock(symbol)
                  => \A k \in 1..Len(watchlist') :
                         watchlist'[k] /= upper(symbol)]_vars

\* C28: at no time are two threads between the start of a poll and the
\* return of the callback.
C28_SingleMonitorThread ==
    Cardinality({t \in 1..Len(threads) :
                     threads[t] \in {"fetch", "callback"}}) <= 1

\* C29: while the flag is cleared and no stop() is waiting, which is the
\* time from the return of stop() to the next start(), no thread enters the
\* callback.
C29_NoCallbackAfterStop ==
    [][(caller = "idle" /\ ~is_running)
           => \A t \in 1..Len(threads) :
                  threads'[t] = "callback" => threads[t] = "callback"]_vars

====
